---- MODULE Spec2Model ----
(***************************************************************************)
(* Model of rule-api: the crawl-permission handler (GetAllowedCrawl), the  *)
(* memcached robots-file cache, the custom-rule repository and the         *)
(* handlers that write it.                                                 *)
(*                                                                         *)
(* Byte strings (robots files, response bodies, error texts) are sequences *)
(* of lines; "" is the empty sequence.                                     *)
(***************************************************************************)
EXTENDS Integers, Sequences, FiniteSets, TLC

VARIABLES rules, nextId, cache, mu, pc, call

vars == <<rules, nextId, cache, mu, pc, call>>

(***************************************************************************)
(* Bounds of the model.                                                    *)
(***************************************************************************)
\* largest id the store's sequence hands out
MaxId == 1

(***************************************************************************)
(* Program constants.                                                      *)
(***************************************************************************)
StatusOK == 200
StatusBadRequest == 400
StatusUnauthorized == 401
StatusForbidden == 403
StatusNotFound == 404
StatusInternalServerError == 500
\* cache.ttl_for_robots_txt ("24h"), counted in ticks of the cache clock
TtlForRobotsTxt == 2

(***************************************************************************)
(* Inputs.                                                                 *)
(***************************************************************************)
EmptyText == << >>
TxtAllow == <<"User-agent: *", "Allow: /test">>
TxtDisallow == <<"User-agent: *", "Disallow: /test">>

\* request bodies and live response bodies
Bodies == {EmptyText, TxtAllow, TxtDisallow}

Urls == {"", "https://example.com/test", "http://example.com/other",
         "https://other.org/test", "//example.com/test", "example.com/test",
         "://example.com"}

\* urls of one site that differ in letter case, path, scheme or port, with and
\* without scheme
SiteUrls == {"https://example.com/test", "https://example.com/other",
             "https://EXAMPLE.com/test", "example.com/test", "example.com/other",
             "http://example.com:8080/test"}

UserAgents == {"", "bot"}

\* status codes a live site answers with
LiveStatuses == {200, 299, 300, 404}

\* outcome of http.Client.Do followed by io.ReadAll: a transport failure or a reply
TransportFailure == [err |-> TRUE, status |-> 0, body |-> <<"dial tcp: connection refused">>]
LiveReplies == {TransportFailure}
               \cup [err : {FALSE}, status : LiveStatuses, body : Bodies]
NoReply == [err |-> FALSE, status |-> 0, body |-> EmptyText]

\* replies of a site that answers 500 with the text of a transport failure
SiteReplies == {TransportFailure,
                [err |-> FALSE, status |-> 200, body |-> TxtDisallow],
                [err |-> FALSE, status |-> 404, body |-> EmptyText],
                [err |-> FALSE, status |-> 500, body |-> TransportFailure.body]}

(***************************************************************************)
(* net/url: Parse on the urls of the model; host is URL.Hostname(), the    *)
(* host without the port, and port is URL.Port().                          *)
(***************************************************************************)
UrlParse(url) ==
    CASE url = "" ->
           [err |-> FALSE, scheme |-> "", host |-> "", port |-> "",
            path |-> << >>]
      [] url = "https://example.com/test" ->
           [err |-> FALSE, scheme |-> "https", host |-> "example.com", port |-> "",
            path |-> <<"test">>]
      [] url = "http://example.com/other" ->
           [err |-> FALSE, scheme |-> "http", host |-> "example.com", port |-> "",
            path |-> <<"other">>]
      [] url = "https://other.org/test" ->
           [err |-> FALSE, scheme |-> "https", host |-> "other.org", port |-> "",
            path |-> <<"test">>]
      [] url = "//example.com/test" ->
           [err |-> FALSE, scheme |-> "", host |-> "example.com", port |-> "",
            path |-> <<"test">>]
      [] url = "example.com/test" ->
           [err |-> FALSE, scheme |-> "", host |-> "", port |-> "",
            path |-> <<"example.com", "test">>]
      [] url = "https://example.com/other" ->
           [err |-> FALSE, scheme |-> "https", host |-> "example.com", port |-> "",
            path |-> <<"other">>]
      [] url = "https://EXAMPLE.com/test" ->
           [err |-> FALSE, scheme |-> "https", host |-> "EXAMPLE.com", port |-> "",
            path |-> <<"test">>]
      [] url = "example.com/other" ->
           [err |-> FALSE, scheme |-> "", host |-> "", port |-> "",
            path |-> <<"example.com", "other">>]
      [] url = "http://example.com:8080/test" ->
           [err |-> FALSE, scheme |-> "http", host |-> "example.com", port |-> "8080",
            path |-> <<"test">>]
      [] OTHER ->
           [err |-> TRUE, scheme |-> "", host |-> "", port |-> "",
            path |-> << >>]

ErrMissingScheme == <<"parse \"://example.com\": missing protocol scheme">>
ErrInvalidUrl == <<"invalid url. Url should contain scheme and hostname">>

\* GetDomain returning URL.Host, the host with its port
GetDomainWithPort(url) ==
    LET parsedUrl == UrlParse(url) IN
    IF parsedUrl.err THEN [err |-> TRUE, msg |-> ErrMissingScheme, domain |-> ""]
    ELSE IF parsedUrl.host = "" THEN [err |-> TRUE, msg |-> ErrInvalidUrl, domain |-> ""]
    ELSE [err |-> FALSE, msg |-> EmptyText,
          domain |-> IF parsedUrl.port = "" THEN parsedUrl.host ELSE "example.com:8080"]

GetDomain(url) ==
    LET parsedUrl == UrlParse(url) IN
    IF parsedUrl.err THEN [err |-> TRUE, msg |-> ErrMissingScheme, domain |-> ""]
    ELSE IF parsedUrl.host = "" THEN [err |-> TRUE, msg |-> ErrInvalidUrl, domain |-> ""]
    ELSE [err |-> FALSE, msg |-> EmptyText, domain |-> parsedUrl.host]

\* GetBaseUrl that asks for a hostname only
GetBaseUrlAnyScheme(url) ==
    LET parsedUrl == UrlParse(url) IN
    IF parsedUrl.err THEN [err |-> TRUE, msg |-> ErrMissingScheme, base |-> <<"", "">>]
    ELSE IF parsedUrl.host = ""
         THEN [err |-> TRUE, msg |-> ErrInvalidUrl, base |-> <<"", "">>]
    ELSE [err |-> FALSE, msg |-> EmptyText, base |-> <<parsedUrl.scheme, parsedUrl.host>>]

GetBaseUrl(url) ==
    LET parsedUrl == UrlParse(url) IN
    IF parsedUrl.err THEN [err |-> TRUE, msg |-> ErrMissingScheme, base |-> <<"", "">>]
    ELSE IF parsedUrl.scheme = "" \/ parsedUrl.host = ""
         THEN [err |-> TRUE, msg |-> ErrInvalidUrl, base |-> <<"", "">>]
    ELSE [err |-> FALSE, msg |-> EmptyText, base |-> <<parsedUrl.scheme, parsedUrl.host>>]

\* fmt.Sprintf("failed to parse url. %s", err.Error())
FailedToParseUrl(msg) == <<"failed to parse url. ">> \o msg

(***************************************************************************)
(* The cache client.                                                       *)
(***************************************************************************)
\* sha256 + hex: an injective tag of its argument
hashURL(s) == <<"sha256", s>>

\* generateDomainHash that always hashes the whole url
generateDomainHashOfUrl(url) == <<hashURL(url), "-robots-txt">>

generateDomainHash(url) ==
    LET d == GetDomain(url) IN
    IF d.err THEN <<hashURL(url), "-robots-txt">>
    ELSE <<hashURL(d.domain), "-robots-txt">>

CacheKeys == {generateDomainHash(u) : u \in Urls \cup SiteUrls}

\* encoding/json.Marshal of a []byte: the base64 text of the bytes in double quotes
Base64(b) ==
    CASE b = TxtAllow -> "VXNlci1hZ2VudDogKgpBbGxvdzogL3Rlc3Q="
      [] b = TxtDisallow -> "VXNlci1hZ2VudDogKgpEaXNhbGxvdzogL3Rlc3Q="
      [] OTHER -> ""

JsonMarshal(b) == <<"\"", Base64(b), "\"">>

NoItem == [present |-> FALSE, value |-> EmptyText, ttl |-> 0]

\* memcache.Client.Get on a provider that answers
MemcacheGet(key) == cache[key]

\* SetItem with an expiration of 0, which memcached takes for "never expires"
SetItemNoExpiry(value, expiration) ==
    [present |-> TRUE, value |-> JsonMarshal(value), ttl |-> 0]

\* MemcachedClient.set: the item written for (key, value, expiration)
SetItem(value, expiration) ==
    [present |-> TRUE, value |-> JsonMarshal(value), ttl |-> expiration]

\* GetRobotsFile that takes a found item for a miss
GetRobotsFileAlwaysMiss(url, providerErr) == [ok |-> FALSE, file |-> EmptyText]

\* MemcachedClient.GetRobotsFile: (file, ok) for a provider outcome
GetRobotsFile(url, providerErr) ==
    LET item == MemcacheGet(generateDomainHash(url)) IN
    IF providerErr \/ ~item.present THEN [ok |-> FALSE, file |-> EmptyText]
    ELSE [ok |-> TRUE, file |-> item.value]

\* MemcachedClient.SaveRobotsFile: the cache after the call
SaveRobotsFile(url, robotFile, providerErr) ==
    IF providerErr THEN cache
    ELSE [cache EXCEPT ![generateDomainHash(url)] = SetItem(robotFile, TtlForRobotsTxt)]

(***************************************************************************)
(* grobotstxt.AgentAllowed: groups of user-agent lines, longest matching   *)
(* rule wins, Allow wins a tie, no matching rule allows.                   *)
(***************************************************************************)
NoLine == [k |-> "", agent |-> "", path |-> << >>]

ParseLine(line) ==
    CASE line = "User-agent: *" -> [k |-> "User-agent", agent |-> "*", path |-> << >>]
      [] line = "User-agent: bot" -> [k |-> "User-agent", agent |-> "bot", path |-> << >>]
      [] line = "Allow: /test" -> [k |-> "Allow", agent |-> "", path |-> <<"test">>]
      [] line = "Disallow: /test" -> [k |-> "Disallow", agent |-> "", path |-> <<"test">>]
      [] line = "Disallow: /" -> [k |-> "Disallow", agent |-> "", path |-> << >>]
      [] OTHER -> NoLine

IsPrefix(s, t) == Len(s) <= Len(t) /\ \A i \in 1..Len(s) : s[i] = t[i]

\* the user-agent lines heading the group that line i belongs to
RECURSIVE GroupHead(_, _, _)
GroupHead(txt, i, inHead) ==
    IF i = 0 THEN {}
    ELSE IF ParseLine(txt[i]).k = "User-agent"
         THEN {ParseLine(txt[i]).agent} \cup GroupHead(txt, i - 1, TRUE)
    ELSE IF inHead THEN {}
    ELSE GroupHead(txt, i - 1, FALSE)

RulesOf(txt, agent) ==
    {i \in 1..Len(txt) : /\ ParseLine(txt[i]).k \in {"Allow", "Disallow"}
                         /\ agent \in GroupHead(txt, i - 1, FALSE)}

Priority(txt, idx, kind, path) ==
    LET m == {Len(ParseLine(txt[i]).path) + 1 :
                 i \in {j \in idx : /\ ParseLine(txt[j]).k = kind
                                    /\ IsPrefix(ParseLine(txt[j]).path, path)}}
    IN IF m = {} THEN 0 ELSE CHOOSE x \in m : \A y \in m : y <= x

AgentAllowed(robotsTxt, userAgent, url) ==
    LET path == UrlParse(url).path
        specific == \E i \in 1..Len(robotsTxt) :
                       /\ ParseLine(robotsTxt[i]).k = "User-agent"
                       /\ ParseLine(robotsTxt[i]).agent = userAgent
        idx == IF specific THEN RulesOf(robotsTxt, userAgent) ELSE RulesOf(robotsTxt, "*")
    IN Priority(robotsTxt, idx, "Allow", path) >= Priority(robotsTxt, idx, "Disallow", path)

(***************************************************************************)
(* The rule repository over the custom_rule table.  A row is               *)
(* [id, domain, robots_txt, blocked]; a model.Rule is                      *)
(* [ID, Domain, Blocked, RobotsTxt].  A row also carries req_blocked, a    *)
(* history field that no statement reads: the Blocked value of the rule    *)
(* that the last Save or Update of the row was called with.                *)
(***************************************************************************)
NoRule == [ID |-> 0, Domain |-> "", Blocked |-> FALSE, RobotsTxt |-> EmptyText]

\* row.Scan(&rule.ID, &rule.Domain, &rule.RobotsTxt, ...): Blocked keeps its zero value
ScanRule(row) ==
    [ID |-> row.id, Domain |-> row.domain, Blocked |-> FALSE, RobotsTxt |-> row.robots_txt]

ErrDb == <<"pq: database failure">>

\* RuleRepository.GetByUrl: the results the call can have in the current store
GetByUrl(url) ==
    LET d == GetDomain(url)
        rows == {r \in rules : r.domain = d.domain}
    IN IF d.err
       THEN {[err |-> TRUE, db |-> FALSE, msg |-> FailedToParseUrl(d.msg),
              rule |-> NoRule, queries |-> 0]}
       ELSE {[err |-> TRUE, db |-> TRUE, msg |-> ErrDb, rule |-> NoRule, queries |-> 1]}
            \cup (IF rows = {}
                  THEN {[err |-> TRUE, db |-> FALSE,
                         msg |-> <<"rule with domain '", d.domain, "' not found">>,
                         rule |-> NoRule, queries |-> 1]}
                  ELSE {[err |-> FALSE, db |-> FALSE, msg |-> EmptyText,
                         rule |-> ScanRule(r), queries |-> 1] : r \in rows})

\* the value of the blocked column of an inserted row: Save does not set it
ColumnDefaultBlocked == FALSE

\* RuleRepository.GetById: the results the call can have in the current store
GetById(id) ==
    LET rows == {r \in rules : r.id = id} IN
    {[err |-> TRUE, db |-> TRUE, msg |-> ErrDb, rule |-> NoRule, queries |-> 1]}
    \cup (IF rows = {}
          THEN {[err |-> TRUE, db |-> FALSE,
                 msg |-> <<"rule with id '", ToString(id), "' not found">>,
                 rule |-> NoRule, queries |-> 1]}
          ELSE {[err |-> FALSE, db |-> FALSE, msg |-> EmptyText,
                 rule |-> ScanRule(r), queries |-> 1] : r \in rows})

\* the custom_rule table's constraint on domain: the schema declares no unique
\* key on the column, so the store accepts a second row of a domain
UniqueDomainConstraint == FALSE

\* the INSERT of the rule would violate a constraint of the table
ConstraintViolation(rule) ==
    UniqueDomainConstraint /\ \E r \in rules : r.domain = rule.Domain

\* RuleRepository.Save: the insert, returning the id of the new row
Save(rule) ==
    [id |-> nextId,
     rows |-> rules \cup {[id |-> nextId, domain |-> rule.Domain,
                           robots_txt |-> rule.RobotsTxt, blocked |-> ColumnDefaultBlocked,
                           req_blocked |-> rule.Blocked]}]

\* Update as an upsert: a rule whose id matches no row is inserted
UpdateOrInsert(rule) ==
    IF \E r \in rules : r.id = rule.ID
    THEN {IF r.id = rule.ID
          THEN [r EXCEPT !.domain = rule.Domain, !.robots_txt = rule.RobotsTxt,
                         !.req_blocked = rule.Blocked]
          ELSE r : r \in rules}
    ELSE rules \cup {[id |-> rule.ID, domain |-> rule.Domain,
                      robots_txt |-> rule.RobotsTxt, blocked |-> ColumnDefaultBlocked,
                      req_blocked |-> rule.Blocked]}

\* RuleRepository.Update, lines 89-90: the rows left by UPDATE ... WHERE id = $3
Update(rule) ==
    {IF r.id = rule.ID
     THEN [r EXCEPT !.domain = rule.Domain, !.robots_txt = rule.RobotsTxt,
                    !.req_blocked = rule.Blocked]
     ELSE r : r \in rules}

\* RuleRepository.Delete: the rows left by DELETE ... WHERE id = $1
Delete(ruleId) == {r \in rules : r.id # ruleId}

(***************************************************************************)
(* The handlers.  call[p] holds the locals of the request that process p   *)
(* serves and, once pc[p] = "done", the response it wrote: http is the     *)
(* HTTP status, resp the model.AllowedCrawlResponse, out the gin.H body of *)
(* the custom-rule handlers.  nRepo, nGet, nPut, nFetch and nEval count    *)
(* the repository queries, cache gets, cache puts, live requests and       *)
(* evaluator calls of the request; dbErr, getErr and putErr tell that the  *)
(* store, the cache get and the cache put failed in the provider; sawItem  *)
(* tells that the cache held an item under the request's key at the get.   *)
(* id, b and body are the id and blocked query parameters and the request  *)
(* body of the custom-rule handlers (id 0 is the missing parameter), rule  *)
(* the model.Rule the handler holds, nWrite the count of INSERT, UPDATE    *)
(* and DELETE statements of the request, nRows the rows its UPDATE         *)
(* statement matched (the sql.Result that Update discards), apiKey the     *)
(* X-API-Key header that apiKeyCheck read, target the address of the live  *)
(* request: scheme, host and path.                                         *)
(***************************************************************************)
NoResp == [isAllowed |-> FALSE, blocked |-> FALSE, statusCode |-> 0, error |-> EmptyText]
NoOut == [id |-> 0, error |-> EmptyText, rule |-> NoRule]

NewCall(op, url, ua) ==
    [op |-> op, url |-> url, ua |-> ua, src |-> "none", robotsTxt |-> EmptyText,
     reply |-> NoReply, dbErr |-> FALSE, getErr |-> FALSE, putErr |-> FALSE,
     sawItem |-> FALSE,
     nRepo |-> 0, nGet |-> 0, nPut |-> 0, nFetch |-> 0, nEval |-> 0,
     id |-> 0, b |-> "", body |-> EmptyText, rule |-> NoRule, nWrite |-> 0, nRows |-> 0,
     apiKey |-> "", target |-> << >>,
     http |-> 0, resp |-> NoResp, out |-> NoOut]

\* isSuccess with the upper limit included
isSuccessInclusive(statusCode) == statusCode >= 200 /\ statusCode <= 300

isSuccess(statusCode) == statusCode >= 200 /\ statusCode < 300

AllowedCrawlResponse(isAllowed, blocked, statusCode, error) ==
    [isAllowed |-> isAllowed, blocked |-> blocked, statusCode |-> statusCode, error |-> error]

\* Decide with the evaluator's answer inverted
DecideInverted(c, src, robotsTxt, blocked, targetResponseStatusCode) ==
    [c EXCEPT !.src = src, !.robotsTxt = robotsTxt, !.nEval = @ + 1,
              !.http = StatusOK,
              !.resp = AllowedCrawlResponse(~AgentAllowed(robotsTxt, c.ua, c.url), blocked,
                                            targetResponseStatusCode, EmptyText)]

\* Decide that denies every url of a blocked rule
DecideBlockedDenies(c, src, robotsTxt, blocked, targetResponseStatusCode) ==
    [c EXCEPT !.src = src, !.robotsTxt = robotsTxt, !.nEval = @ + 1,
              !.http = StatusOK,
              !.resp = AllowedCrawlResponse(~blocked /\ AgentAllowed(robotsTxt, c.ua, c.url),
                                            blocked, targetResponseStatusCode, EmptyText)]

\* GetAllowedCrawl, lines 111-128: evaluate the directive text and answer 200
Decide(c, src, robotsTxt, blocked, targetResponseStatusCode) ==
    [c EXCEPT !.src = src, !.robotsTxt = robotsTxt, !.nEval = @ + 1,
              !.http = StatusOK,
              !.resp = AllowedCrawlResponse(AgentAllowed(robotsTxt, c.ua, c.url), blocked,
                                            targetResponseStatusCode, EmptyText)]

\* FailInternal answering a transport failure as "not allowed"
FailInternalAsDisallowed(c, msg) ==
    [c EXCEPT !.http = StatusOK,
              !.resp = AllowedCrawlResponse(FALSE, FALSE, StatusOK, EmptyText)]

\* GetAllowedCrawl, lines 86-96: getRobotsTxt returned an error
FailInternal(c, msg) ==
    [c EXCEPT !.http = StatusInternalServerError,
              !.resp = AllowedCrawlResponse(FALSE, FALSE, StatusInternalServerError, msg)]

\* AnswerTarget marking a decision on fetched or cached text as blocked
AnswerTargetBlocked(c, src, statusCode, body) ==
    IF ~isSuccess(statusCode)
    THEN [c EXCEPT !.src = src, !.http = StatusOK,
                   !.resp = AllowedCrawlResponse(FALSE, FALSE, statusCode, body)]
    ELSE Decide(c, src, body, TRUE, statusCode)

\* GetAllowedCrawl, lines 97-108: the answer for the TargetResponse of getRobotsTxt
AnswerTarget(c, src, statusCode, body) ==
    IF ~isSuccess(statusCode)
    THEN [c EXCEPT !.src = src, !.http = StatusOK,
                   !.resp = AllowedCrawlResponse(FALSE, FALSE, statusCode, body)]
    ELSE Decide(c, src, body, FALSE, statusCode)

Idle(p) == pc[p] \in {"idle", "done"}

\* the router enters a handler for a new request or, in a group with a
\* middleware, when the middleware has called c.Next()
Routed(p) == Idle(p) \/ pc[p] = "next"

\* GetAllowedCrawl checking user_agent before url
GetAllowedCrawlAgentFirst(p, url, userAgent) ==
    /\ Idle(p)
    /\ LET c == NewCall("resolve", url, userAgent) IN
       IF userAgent = ""
       THEN /\ pc' = [pc EXCEPT ![p] = "done"]
            /\ call' = [call EXCEPT ![p] =
                 [c EXCEPT !.http = StatusBadRequest,
                           !.resp = AllowedCrawlResponse(FALSE, FALSE, StatusBadRequest,
                                        <<"'user_agent' query parameter is required">>)]]
       ELSE IF url = ""
       THEN /\ pc' = [pc EXCEPT ![p] = "done"]
            /\ call' = [call EXCEPT ![p] =
                 [c EXCEPT !.http = StatusBadRequest,
                           !.resp = AllowedCrawlResponse(FALSE, FALSE, StatusBadRequest,
                                        <<"'url' query parameter is required">>)]]
       ELSE /\ pc' = [pc EXCEPT ![p] = "lookup"]
            /\ call' = [call EXCEPT ![p] = c]
    /\ UNCHANGED <<rules, nextId, cache, mu>>

\* GetAllowedCrawl, lines 49-75: the two required query parameters
GetAllowedCrawl(p, url, userAgent) ==
    /\ Idle(p)
    /\ LET c == NewCall("resolve", url, userAgent) IN
       IF url = ""
       THEN /\ pc' = [pc EXCEPT ![p] = "done"]
            /\ call' = [call EXCEPT ![p] =
                 [c EXCEPT !.http = StatusBadRequest,
                           !.resp = AllowedCrawlResponse(FALSE, FALSE, StatusBadRequest,
                                        <<"'url' query parameter is required">>)]]
       ELSE IF userAgent = ""
       THEN /\ pc' = [pc EXCEPT ![p] = "done"]
            /\ call' = [call EXCEPT ![p] =
                 [c EXCEPT !.http = StatusBadRequest,
                           !.resp = AllowedCrawlResponse(FALSE, FALSE, StatusBadRequest,
                                        <<"'user_agent' query parameter is required">>)]]
       ELSE /\ pc' = [pc EXCEPT ![p] = "lookup"]
            /\ call' = [call EXCEPT ![p] = c]
    /\ UNCHANGED <<rules, nextId, cache, mu>>

\* ResolveLookup that takes the rule's text and still goes on to the cache
ResolveLookupFallsThrough(p) ==
    /\ pc[p] = "lookup"
    /\ \E g \in GetByUrl(call[p].url) :
         LET c == [call[p] EXCEPT !.nRepo = @ + g.queries, !.dbErr = g.db] IN
         /\ pc' = [pc EXCEPT ![p] = "cacheGet"]
         /\ call' = [call EXCEPT ![p] =
              IF ~g.err /\ g.rule.RobotsTxt # EmptyText
              THEN [c EXCEPT !.src = "override", !.robotsTxt = g.rule.RobotsTxt]
              ELSE c]
    /\ UNCHANGED <<rules, nextId, cache, mu>>

\* GetAllowedCrawl, lines 77-83: the custom rule of the url's domain
ResolveLookup(p) ==
    /\ pc[p] = "lookup"
    /\ \E g \in GetByUrl(call[p].url) :
         LET c == [call[p] EXCEPT !.nRepo = @ + g.queries, !.dbErr = g.db] IN
         IF ~g.err /\ g.rule.RobotsTxt # EmptyText
         THEN /\ pc' = [pc EXCEPT ![p] = "done"]
              /\ call' = [call EXCEPT ![p] =
                   Decide(c, "override", g.rule.RobotsTxt, g.rule.Blocked, StatusOK)]
         ELSE /\ pc' = [pc EXCEPT ![p] = "cacheGet"]
              /\ call' = [call EXCEPT ![p] = c]
    /\ UNCHANGED <<rules, nextId, cache, mu>>

\* ResolveCacheGet reporting a cached file with the status 304 (Not Modified)
ResolveCacheGetNotModified(p) ==
    /\ pc[p] = "cacheGet"
    /\ \E providerErr \in BOOLEAN :
         LET url == call[p].url
             got == GetRobotsFile(url, providerErr)
             c == [call[p] EXCEPT !.nGet = @ + 1, !.getErr = providerErr,
                                  !.sawItem = MemcacheGet(generateDomainHash(url)).present]
             b == GetBaseUrl(url)
         IN IF got.ok
            THEN /\ pc' = [pc EXCEPT ![p] = "done"]
                 /\ call' = [call EXCEPT ![p] = AnswerTarget(c, "cache", 304, got.file)]
            ELSE IF b.err
            THEN /\ pc' = [pc EXCEPT ![p] = "done"]
                 /\ call' = [call EXCEPT ![p] = FailInternal(c, FailedToParseUrl(b.msg))]
            ELSE /\ pc' = [pc EXCEPT ![p] = "fetch"]
                 /\ call' = [call EXCEPT ![p] = c]
    /\ UNCHANGED <<rules, nextId, cache, mu>>

\* getRobotsTxt, lines 330-336, and requestToRobotsTxt, lines 352-355
ResolveCacheGet(p) ==
    /\ pc[p] = "cacheGet"
    /\ \E providerErr \in BOOLEAN :
         LET url == call[p].url
             got == GetRobotsFile(url, providerErr)
             c == [call[p] EXCEPT !.nGet = @ + 1, !.getErr = providerErr,
                                  !.sawItem = MemcacheGet(generateDomainHash(url)).present]
             b == GetBaseUrl(url)
         IN IF got.ok
            THEN /\ pc' = [pc EXCEPT ![p] = "done"]
                 /\ call' = [call EXCEPT ![p] = AnswerTarget(c, "cache", StatusOK, got.file)]
            ELSE IF b.err
            THEN /\ pc' = [pc EXCEPT ![p] = "done"]
                 /\ call' = [call EXCEPT ![p] = FailInternal(c, FailedToParseUrl(b.msg))]
            ELSE /\ pc' = [pc EXCEPT ![p] = "fetch"]
                 /\ call' = [call EXCEPT ![p] = c]
    /\ UNCHANGED <<rules, nextId, cache, mu>>

\* requestToRobotsTxt, lines 356-380, and getRobotsTxt, lines 338-344
ResolveFetchReply(p, reply) ==
    /\ pc[p] = "fetch"
    /\ LET c == [call[p] EXCEPT !.nFetch = @ + 1, !.reply = reply,
                                !.target = GetBaseUrl(call[p].url).base \o <<"/robots.txt">>]
       IN
       IF reply.err
       THEN /\ pc' = [pc EXCEPT ![p] = "done"]
            /\ call' = [call EXCEPT ![p] = FailInternal(c, reply.body)]
       ELSE IF isSuccess(reply.status) /\ Len(reply.body) # 0
       THEN /\ pc' = [pc EXCEPT ![p] = "cachePut"]
            /\ call' = [call EXCEPT ![p] = c]
       ELSE /\ pc' = [pc EXCEPT ![p] = "done"]
            /\ call' = [call EXCEPT ![p] = AnswerTarget(c, "live", reply.status, reply.body)]
    /\ UNCHANGED <<rules, nextId, cache, mu>>

\* the live request with any reply of LiveReplies
ResolveFetch(p) == \E reply \in LiveReplies : ResolveFetchReply(p, reply)

\* ResolveCachePut that fails the request when the cache write fails
ResolveCachePutFailing(p) ==
    /\ pc[p] = "cachePut"
    /\ \E providerErr \in BOOLEAN :
         LET c == [call[p] EXCEPT !.nPut = @ + 1, !.putErr = providerErr] IN
         /\ cache' = SaveRobotsFile(c.url, c.reply.body, providerErr)
         /\ pc' = [pc EXCEPT ![p] = "done"]
         /\ call' = [call EXCEPT ![p] =
              IF providerErr THEN FailInternal(c, <<"memcache: server error">>)
              ELSE AnswerTarget(c, "live", c.reply.status, c.reply.body)]
    /\ UNCHANGED <<rules, nextId, mu>>

\* ResolveCachePut that also drops the custom rules of the domain it fetched for
ResolveCachePutDroppingRules(p) ==
    /\ pc[p] = "cachePut"
    /\ \E providerErr \in BOOLEAN :
         LET c == [call[p] EXCEPT !.nPut = @ + 1, !.putErr = providerErr] IN
         /\ cache' = SaveRobotsFile(c.url, c.reply.body, providerErr)
         /\ rules' = {r \in rules : r.domain # GetDomain(c.url).domain}
         /\ pc' = [pc EXCEPT ![p] = "done"]
         /\ call' = [call EXCEPT ![p] = AnswerTarget(c, "live", c.reply.status, c.reply.body)]
    /\ UNCHANGED <<nextId, mu>>

\* getRobotsTxt, lines 345-348: save the fetched file, then answer
ResolveCachePut(p) ==
    /\ pc[p] = "cachePut"
    /\ \E providerErr \in BOOLEAN :
         LET c == [call[p] EXCEPT !.nPut = @ + 1, !.putErr = providerErr] IN
         /\ cache' = SaveRobotsFile(c.url, c.reply.body, providerErr)
         /\ pc' = [pc EXCEPT ![p] = "done"]
         /\ call' = [call EXCEPT ![p] = AnswerTarget(c, "live", c.reply.status, c.reply.body)]
    /\ UNCHANGED <<rules, nextId, mu>>

\* strconv.ParseBool on the values of the blocked query parameter
ParseBool(b) ==
    CASE b = "true" -> [err |-> FALSE, val |-> TRUE]
      [] b = "false" -> [err |-> FALSE, val |-> FALSE]
      [] OTHER -> [err |-> TRUE, val |-> FALSE]

BlockedParams == {"", "true"}

\* values of the url query parameter of the custom-rule handlers
AdminUrls == {"", "https://example.com/test", "https://other.org/test", "example.com/test"}

\* answer of a custom-rule handler: c.JSON(status, gin.H{"error": msg})
Reject(c, status, msg) == [c EXCEPT !.http = status, !.out.error = msg]

\* CreateCustomRule, lines 182-209: the checks before ruleRepo.Save
CreateCustomRule(p, url, b, body) ==
    /\ Routed(p)
    /\ LET c == [NewCall("create", url, "") EXCEPT !.b = b, !.body = body]
           blocked == ParseBool(IF b = "" THEN "false" ELSE b).val
           d == GetDomain(url)
       IN
       IF url = ""
       THEN /\ pc' = [pc EXCEPT ![p] = "done"]
            /\ call' = [call EXCEPT ![p] =
                 Reject(c, StatusBadRequest, <<"'url' query parameter is required">>)]
       ELSE IF Len(body) = 0
       THEN /\ pc' = [pc EXCEPT ![p] = "done"]
            /\ call' = [call EXCEPT ![p] =
                 Reject(c, StatusBadRequest, <<"custom rules are not found or empty">>)]
       ELSE IF d.err
       THEN /\ pc' = [pc EXCEPT ![p] = "done"]
            /\ call' = [call EXCEPT ![p] =
                 Reject(c, StatusInternalServerError, FailedToParseUrl(d.msg))]
       ELSE /\ pc' = [pc EXCEPT ![p] = "saveLock"]
            /\ call' = [call EXCEPT ![p] =
                 [c EXCEPT !.rule = [ID |-> 0, Domain |-> d.domain, Blocked |-> blocked,
                                     RobotsTxt |-> body]]]
    /\ UNCHANGED <<rules, nextId, cache, mu>>

\* SaveLock that does not wait for the lock to be free
SaveLockNoWait(p) ==
    /\ pc[p] = "saveLock"
    /\ mu' = p
    /\ pc' = [pc EXCEPT ![p] = "saveInsert"]
    /\ UNCHANGED <<rules, nextId, cache, call>>

\* RuleRepository.Save, line 75: r.mu.Lock()
SaveLock(p) ==
    /\ pc[p] = "saveLock"
    /\ mu = 0
    /\ mu' = p
    /\ pc' = [pc EXCEPT ![p] = "saveInsert"]
    /\ UNCHANGED <<rules, nextId, cache, call>>

\* RuleRepository.Save, lines 77-82: the INSERT; the store hands out ids up to limit
SaveInsert(p, dbErr, limit) ==
    /\ pc[p] = "saveInsert"
    /\ LET c == [call[p] EXCEPT !.nRepo = @ + 1, !.nWrite = @ + 1]
           saved == Save(c.rule)
       IN
       IF dbErr \/ nextId > limit \/ ConstraintViolation(c.rule)
       THEN /\ call' = [call EXCEPT ![p] = [c EXCEPT !.dbErr = TRUE]]
            /\ UNCHANGED <<rules, nextId>>
       ELSE /\ call' = [call EXCEPT ![p] = [c EXCEPT !.out.id = saved.id]]
            /\ rules' = saved.rows
            /\ nextId' = nextId + 1
    /\ pc' = [pc EXCEPT ![p] = "saveUnlock"]
    /\ UNCHANGED <<cache, mu>>

\* RuleRepository.Save, line 76: the deferred r.mu.Unlock(); CreateCustomRule, lines 216-222
SaveUnlock(p) ==
    /\ pc[p] = "saveUnlock"
    /\ mu' = 0
    /\ pc' = [pc EXCEPT ![p] = "done"]
    /\ call' = [call EXCEPT ![p] =
         IF call[p].dbErr
         THEN Reject(call[p], StatusInternalServerError,
                     <<"failed to save custom rule. ">> \o ErrDb)
         ELSE [call[p] EXCEPT !.http = StatusOK]]
    /\ UNCHANGED <<rules, nextId, cache>>

\* values of the blocked query parameter of an update
UpdateBlockedParams == {"", "true", "false", "maybe"}

\* UpdateCustomRule, lines 238-265: the checks before the repository is read
UpdateCustomRule(p, id, url, b, body) ==
    /\ Routed(p)
    /\ LET c == [NewCall("update", url, "") EXCEPT !.id = id, !.b = b, !.body = body] IN
       IF id = 0 /\ url = ""
       THEN /\ pc' = [pc EXCEPT ![p] = "done"]
            /\ call' = [call EXCEPT ![p] =
                 Reject(c, StatusBadRequest, <<"'id' or 'url' query parameter is required">>)]
       ELSE IF b = ""
       THEN /\ pc' = [pc EXCEPT ![p] = "done"]
            /\ call' = [call EXCEPT ![p] =
                 Reject(c, StatusBadRequest, <<"'blocked' query parameter is required">>)]
       ELSE IF ParseBool(b).err
       THEN /\ pc' = [pc EXCEPT ![p] = "done"]
            /\ call' = [call EXCEPT ![p] =
                 Reject(c, StatusInternalServerError,
                        <<"unable to parse 'blocked' query parameter">>)]
       ELSE IF Len(body) = 0
       THEN /\ pc' = [pc EXCEPT ![p] = "done"]
            /\ call' = [call EXCEPT ![p] =
                 Reject(c, StatusBadRequest, <<"custom rules are not found or empty">>)]
       ELSE /\ pc' = [pc EXCEPT ![p] = "updRead"]
            /\ call' = [call EXCEPT ![p] = c]
    /\ UNCHANGED <<rules, nextId, cache, mu>>

\* UpdateCustomRule, lines 267-290: read the rule, skip the write if nothing changes
UpdateRead(p) ==
    /\ pc[p] = "updRead"
    /\ \E g \in (IF call[p].id # 0 THEN GetById(call[p].id) ELSE GetByUrl(call[p].url)) :
         LET c == [call[p] EXCEPT !.nRepo = @ + g.queries, !.dbErr = g.db]
             blocked == ParseBool(c.b).val
         IN
         IF g.err
         THEN /\ pc' = [pc EXCEPT ![p] = "done"]
              /\ call' = [call EXCEPT ![p] =
                   Reject(c, StatusNotFound,
                          (IF c.id # 0 THEN <<"failed to get rule by id. ">>
                           ELSE <<"failed to get rule by url. ">>) \o g.msg)]
         ELSE IF g.rule.RobotsTxt = c.body /\ g.rule.Blocked = blocked
         THEN /\ pc' = [pc EXCEPT ![p] = "done"]
              /\ call' = [call EXCEPT ![p] =
                   [c EXCEPT !.rule = g.rule, !.http = StatusOK, !.out.rule = g.rule]]
         ELSE /\ pc' = [pc EXCEPT ![p] = "updWrite"]
              /\ call' = [call EXCEPT ![p] =
                   [c EXCEPT !.rule = [g.rule EXCEPT !.RobotsTxt = c.body,
                                                     !.Blocked = blocked]]]
    /\ UNCHANGED <<rules, nextId, cache, mu>>

\* RuleRepository.Update, lines 89-93: the UPDATE statement
UpdateWrite(p, dbErr) ==
    /\ pc[p] = "updWrite"
    /\ LET c == [call[p] EXCEPT !.nRepo = @ + 1, !.nWrite = @ + 1] IN
       IF dbErr
       THEN /\ pc' = [pc EXCEPT ![p] = "done"]
            /\ call' = [call EXCEPT ![p] =
                 Reject([c EXCEPT !.dbErr = TRUE], StatusInternalServerError,
                        <<"failed to update custom rule. ">> \o ErrDb)]
            /\ UNCHANGED rules
       ELSE /\ pc' = [pc EXCEPT ![p] = "updReload"]
            /\ call' = [call EXCEPT ![p] =
                 [c EXCEPT !.nRows = Cardinality({r \in rules : r.id = c.rule.ID})]]
            /\ rules' = Update(c.rule)
    /\ UNCHANGED <<nextId, cache, mu>>

\* UpdateReload answering with the rule the request wrote, without reading it back
UpdateReloadOwnRule(p) ==
    /\ pc[p] = "updReload"
    /\ call' = [call EXCEPT ![p] =
         [call[p] EXCEPT !.http = StatusOK, !.out.rule = call[p].rule]]
    /\ pc' = [pc EXCEPT ![p] = "done"]
    /\ UNCHANGED <<rules, nextId, cache, mu>>

\* RuleRepository.Update, line 96, and UpdateCustomRule, lines 292-299
UpdateReload(p) ==
    /\ pc[p] = "updReload"
    /\ \E g \in GetById(call[p].rule.ID) :
         LET c == [call[p] EXCEPT !.nRepo = @ + 1, !.dbErr = g.db] IN
         /\ call' = [call EXCEPT ![p] =
              IF g.err
              THEN Reject(c, StatusInternalServerError,
                          <<"failed to update custom rule. ">> \o g.msg)
              ELSE [c EXCEPT !.http = StatusOK, !.out.rule = g.rule]]
    /\ pc' = [pc EXCEPT ![p] = "done"]
    /\ UNCHANGED <<rules, nextId, cache, mu>>

\* GetCustomRule looking up by url whenever a url is given
GetCustomRuleUrlFirst(p, id, url) ==
    /\ Routed(p)
    /\ LET c == [NewCall("get", url, "") EXCEPT !.id = id] IN
       IF id = 0 /\ url = ""
       THEN call' = [call EXCEPT ![p] =
              Reject(c, StatusBadRequest, <<"'id' or 'url' query parameter is required">>)]
       ELSE \E g \in (IF url = "" THEN GetById(id) ELSE GetByUrl(url)) :
              LET c1 == [c EXCEPT !.nRepo = g.queries, !.dbErr = g.db] IN
              call' = [call EXCEPT ![p] =
                IF g.err
                THEN Reject(c1, StatusNotFound,
                            (IF url = "" THEN <<"failed to get rule by id. ">>
                             ELSE <<"failed to get rule by url. ">>) \o g.msg)
                ELSE [c1 EXCEPT !.http = StatusOK, !.out.rule = g.rule]]
    /\ pc' = [pc EXCEPT ![p] = "done"]
    /\ UNCHANGED <<rules, nextId, cache, mu>>

\* GetCustomRule, lines 141-168
GetCustomRule(p, id, url) ==
    /\ Routed(p)
    /\ LET c == [NewCall("get", url, "") EXCEPT !.id = id] IN
       IF id = 0 /\ url = ""
       THEN call' = [call EXCEPT ![p] =
              Reject(c, StatusBadRequest, <<"'id' or 'url' query parameter is required">>)]
       ELSE \E g \in (IF id # 0 THEN GetById(id) ELSE GetByUrl(url)) :
              LET c1 == [c EXCEPT !.nRepo = g.queries, !.dbErr = g.db] IN
              call' = [call EXCEPT ![p] =
                IF g.err
                THEN Reject(c1, StatusNotFound,
                            (IF id # 0 THEN <<"failed to get rule by id. ">>
                             ELSE <<"failed to get rule by url. ">>) \o g.msg)
                ELSE [c1 EXCEPT !.http = StatusOK, !.out.rule = g.rule]]
    /\ pc' = [pc EXCEPT ![p] = "done"]
    /\ UNCHANGED <<rules, nextId, cache, mu>>

\* DeleteCustomRule failing when the DELETE statement matched no row
DeleteCustomRuleStrict(p, id, dbErr) ==
    /\ Routed(p)
    /\ LET c == [NewCall("delete", "", "") EXCEPT !.id = id] IN
       IF id = 0
       THEN /\ call' = [call EXCEPT ![p] =
                 Reject(c, StatusBadRequest, <<"'id' query parameter is required">>)]
            /\ UNCHANGED rules
       ELSE IF dbErr \/ \A r \in rules : r.id # id
       THEN /\ call' = [call EXCEPT ![p] =
                 Reject([c EXCEPT !.nRepo = 1, !.nWrite = 1, !.dbErr = dbErr],
                        StatusInternalServerError,
                        <<"failed to delete custom rule. ">> \o ErrDb)]
            /\ UNCHANGED rules
       ELSE /\ call' = [call EXCEPT ![p] =
                 [c EXCEPT !.nRepo = 1, !.nWrite = 1, !.http = StatusOK, !.out.id = id]]
            /\ rules' = Delete(id)
    /\ pc' = [pc EXCEPT ![p] = "done"]
    /\ UNCHANGED <<nextId, cache, mu>>

\* DeleteCustomRule that also removes the cached file of the deleted rule's domain
DeleteCustomRuleEvicting(p, id, dbErr) ==
    /\ Routed(p)
    /\ LET c == [NewCall("delete", "", "") EXCEPT !.id = id] IN
       IF id = 0
       THEN /\ call' = [call EXCEPT ![p] =
                 Reject(c, StatusBadRequest, <<"'id' query parameter is required">>)]
            /\ UNCHANGED <<rules, cache>>
       ELSE IF dbErr
       THEN /\ call' = [call EXCEPT ![p] =
                 Reject([c EXCEPT !.nRepo = 1, !.nWrite = 1, !.dbErr = TRUE],
                        StatusInternalServerError,
                        <<"failed to delete custom rule. ">> \o ErrDb)]
            /\ UNCHANGED <<rules, cache>>
       ELSE /\ call' = [call EXCEPT ![p] =
                 [c EXCEPT !.nRepo = 1, !.nWrite = 1, !.http = StatusOK, !.out.id = id]]
            /\ rules' = Delete(id)
            /\ cache' = [k \in CacheKeys |->
                           IF \E r \in rules : /\ r.id = id
                                               /\ k = <<hashURL(r.domain), "-robots-txt">>
                           THEN NoItem ELSE cache[k]]
    /\ pc' = [pc EXCEPT ![p] = "done"]
    /\ UNCHANGED <<nextId, mu>>

\* DeleteCustomRule; dbErr is the outcome of the DELETE statement
DeleteCustomRule(p, id, dbErr) ==
    /\ Routed(p)
    /\ LET c == [NewCall("delete", "", "") EXCEPT !.id = id] IN
       IF id = 0
       THEN /\ call' = [call EXCEPT ![p] =
                 Reject(c, StatusBadRequest, <<"'id' query parameter is required">>)]
            /\ UNCHANGED rules
       ELSE IF dbErr
       THEN /\ call' = [call EXCEPT ![p] =
                 Reject([c EXCEPT !.nRepo = 1, !.nWrite = 1, !.dbErr = TRUE],
                        StatusInternalServerError,
                        <<"failed to delete custom rule. ">> \o ErrDb)]
            /\ UNCHANGED rules
       ELSE /\ call' = [call EXCEPT ![p] =
                 [c EXCEPT !.nRepo = 1, !.nWrite = 1, !.http = StatusOK, !.out.id = id]]
            /\ rules' = Delete(id)
    /\ pc' = [pc EXCEPT ![p] = "done"]
    /\ UNCHANGED <<nextId, cache, mu>>

\* hashAPIKey: sha256 + hex, an injective tag of its argument
hashAPIKey(apiKey) == <<"sha256", apiKey>>

\* the rows of web_crawler.api_key: an active and an inactive key
ApiKeyRows == {[api_key |-> hashAPIKey("key-1"), is_active |-> TRUE],
               [api_key |-> hashAPIKey("key-2"), is_active |-> FALSE]}

\* values of the X-API-Key header
ApiKeys == {"", "key-1", "key-2", "key-3"}

\* apiKeyCheck letting a key pass that is in the table but not active
apiKeyCheckAnyKnownKey(p, apiKey, dbErr) ==
    /\ Idle(p)
    /\ LET c == [NewCall("apiKeyCheck", "", "") EXCEPT !.apiKey = apiKey]
           rows == {r \in ApiKeyRows : r.api_key = hashAPIKey(apiKey)}
       IN
       IF apiKey = ""
       THEN /\ pc' = [pc EXCEPT ![p] = "done"]
            /\ call' = [call EXCEPT ![p] =
                 Reject(c, StatusUnauthorized, <<"X-API-Key header is missing">>)]
       ELSE IF dbErr
       THEN /\ pc' = [pc EXCEPT ![p] = "done"]
            /\ call' = [call EXCEPT ![p] =
                 Reject([c EXCEPT !.dbErr = TRUE], StatusInternalServerError,
                        <<"api-key check failed">>)]
       ELSE IF rows = {}
       THEN /\ pc' = [pc EXCEPT ![p] = "done"]
            /\ call' = [call EXCEPT ![p] =
                 Reject(c, StatusUnauthorized, <<"invalid api-key">>)]
       ELSE /\ pc' = [pc EXCEPT ![p] = "next"]
            /\ call' = [call EXCEPT ![p] = c]
    /\ UNCHANGED <<rules, nextId, cache, mu>>

\* apiKeyCheck, main.go lines 146-176; dbErr is the outcome of its query
apiKeyCheck(p, apiKey, dbErr) ==
    /\ Idle(p)
    /\ LET c == [NewCall("apiKeyCheck", "", "") EXCEPT !.apiKey = apiKey]
           rows == {r \in ApiKeyRows : r.api_key = hashAPIKey(apiKey)}
       IN
       IF apiKey = ""
       THEN /\ pc' = [pc EXCEPT ![p] = "done"]
            /\ call' = [call EXCEPT ![p] =
                 Reject(c, StatusUnauthorized, <<"X-API-Key header is missing">>)]
       ELSE IF dbErr
       THEN /\ pc' = [pc EXCEPT ![p] = "done"]
            /\ call' = [call EXCEPT ![p] =
                 Reject([c EXCEPT !.dbErr = TRUE], StatusInternalServerError,
                        <<"api-key check failed">>)]
       ELSE IF rows = {}
       THEN /\ pc' = [pc EXCEPT ![p] = "done"]
            /\ call' = [call EXCEPT ![p] =
                 Reject(c, StatusUnauthorized, <<"invalid api-key">>)]
       ELSE IF \E r \in rows : ~r.is_active
       THEN /\ pc' = [pc EXCEPT ![p] = "done"]
            /\ call' = [call EXCEPT ![p] =
                 Reject(c, StatusForbidden, <<"api-key is not active">>)]
       ELSE /\ pc' = [pc EXCEPT ![p] = "next"]
            /\ call' = [call EXCEPT ![p] = c]
    /\ UNCHANGED <<rules, nextId, cache, mu>>

\* memcached expiry: an item lives for the expiration it was written with
Tick ==
    /\ \E k \in CacheKeys : cache[k].present
    /\ cache' = [k \in CacheKeys |->
                   IF ~cache[k].present THEN cache[k]
                   ELSE IF cache[k].ttl <= 1 THEN NoItem
                   ELSE [cache[k] EXCEPT !.ttl = @ - 1]]
    /\ UNCHANGED <<rules, nextId, mu, pc, call>>

(***************************************************************************)
(* Spec: one request at a time; crawl checks, creation and deletion of     *)
(* rules, cache expiry.                                                    *)
(***************************************************************************)
InitWith(procs) ==
    /\ rules = {}
    /\ nextId = 1
    /\ cache = [k \in CacheKeys |-> NoItem]
    /\ mu = 0
    /\ pc = [p \in procs |-> "idle"]
    /\ call = [p \in procs |-> NewCall("", "", "")]

Init == InitWith({1})

Next ==
    \/ \E p \in DOMAIN pc, url \in Urls, ua \in UserAgents : GetAllowedCrawl(p, url, ua)
    \/ \E p \in DOMAIN pc : ResolveLookup(p)
    \/ \E p \in DOMAIN pc : ResolveCacheGet(p)
    \/ \E p \in DOMAIN pc : ResolveFetch(p)
    \/ \E p \in DOMAIN pc : ResolveCachePut(p)
    \/ \E p \in DOMAIN pc, url \in AdminUrls, b \in BlockedParams, body \in Bodies :
         CreateCustomRule(p, url, b, body)
    \/ \E p \in DOMAIN pc : SaveLock(p)
    \/ \E p \in DOMAIN pc, dbErr \in BOOLEAN : SaveInsert(p, dbErr, MaxId)
    \/ \E p \in DOMAIN pc : SaveUnlock(p)
    \/ \E p \in DOMAIN pc, id \in 0..MaxId, dbErr \in BOOLEAN : DeleteCustomRule(p, id, dbErr)
    \/ Tick

Spec == Init /\ [][Next]_vars

(***************************************************************************)
(* SpecAdmin: one request at a time; the four custom-rule handlers.        *)
(***************************************************************************)
NextAdmin ==
    \/ \E p \in DOMAIN pc, url \in AdminUrls, b \in BlockedParams, body \in Bodies :
         CreateCustomRule(p, url, b, body)
    \/ \E p \in DOMAIN pc : SaveLock(p)
    \/ \E p \in DOMAIN pc, dbErr \in BOOLEAN : SaveInsert(p, dbErr, MaxId)
    \/ \E p \in DOMAIN pc : SaveUnlock(p)
    \/ \E p \in DOMAIN pc, id \in 0..MaxId, url \in AdminUrls,
          b \in UpdateBlockedParams, body \in Bodies : UpdateCustomRule(p, id, url, b, body)
    \/ \E p \in DOMAIN pc : UpdateRead(p)
    \/ \E p \in DOMAIN pc, dbErr \in BOOLEAN : UpdateWrite(p, dbErr)
    \/ \E p \in DOMAIN pc : UpdateReload(p)
    \/ \E p \in DOMAIN pc, id \in 0..MaxId, url \in AdminUrls : GetCustomRule(p, id, url)
    \/ \E p \in DOMAIN pc, id \in 0..MaxId, dbErr \in BOOLEAN :
         DeleteCustomRule(p, id, dbErr)

SpecAdmin == Init /\ [][NextAdmin]_vars

(***************************************************************************)
(* SpecSite: one request at a time; crawl checks and rules for urls of one *)
(* site that differ in letter case or path or lack a scheme, and a site    *)
(* whose replies can carry the text of a failure.                          *)
(***************************************************************************)
NextSite ==
    \/ \E p \in DOMAIN pc, url \in SiteUrls, ua \in UserAgents : GetAllowedCrawl(p, url, ua)
    \/ \E p \in DOMAIN pc : ResolveLookup(p)
    \/ \E p \in DOMAIN pc : ResolveCacheGet(p)
    \/ \E p \in DOMAIN pc, reply \in SiteReplies : ResolveFetchReply(p, reply)
    \/ \E p \in DOMAIN pc : ResolveCachePut(p)
    \/ \E p \in DOMAIN pc, url \in {"https://example.com/test", "https://EXAMPLE.com/test"} :
         CreateCustomRule(p, url, "", TxtDisallow)
    \/ \E p \in DOMAIN pc : SaveLock(p)
    \/ \E p \in DOMAIN pc : SaveInsert(p, FALSE, MaxId)
    \/ \E p \in DOMAIN pc : SaveUnlock(p)
    \/ \E p \in DOMAIN pc, id \in 1..MaxId : DeleteCustomRule(p, id, FALSE)
    \/ Tick

SpecSite == Init /\ [][NextSite]_vars

(***************************************************************************)
(* SpecAuth: one request at a time, routed as httpServer registers it: the *)
(* crawl check directly, the custom-rule handlers behind apiKeyCheck.      *)
(***************************************************************************)
AuthUrls == {"", "https://example.com/test"}

NextAuth ==
    \/ \E p \in DOMAIN pc, url \in AuthUrls : GetAllowedCrawl(p, url, "bot")
    \/ \E p \in DOMAIN pc : ResolveLookup(p)
    \/ \E p \in DOMAIN pc : ResolveCacheGet(p)
    \/ \E p \in DOMAIN pc, reply \in SiteReplies : ResolveFetchReply(p, reply)
    \/ \E p \in DOMAIN pc : ResolveCachePut(p)
    \/ \E p \in DOMAIN pc, apiKey \in ApiKeys, dbErr \in BOOLEAN : apiKeyCheck(p, apiKey, dbErr)
    \/ \E p \in DOMAIN pc, url \in AuthUrls, body \in {EmptyText, TxtDisallow} :
         pc[p] = "next" /\ CreateCustomRule(p, url, "", body)
    \/ \E p \in DOMAIN pc : SaveLock(p)
    \/ \E p \in DOMAIN pc, dbErr \in BOOLEAN : SaveInsert(p, dbErr, MaxId)
    \/ \E p \in DOMAIN pc : SaveUnlock(p)
    \/ \E p \in DOMAIN pc, id \in 0..MaxId, b \in {"", "false"} :
         pc[p] = "next" /\ UpdateCustomRule(p, id, "", b, TxtAllow)
    \/ \E p \in DOMAIN pc : UpdateRead(p)
    \/ \E p \in DOMAIN pc, dbErr \in BOOLEAN : UpdateWrite(p, dbErr)
    \/ \E p \in DOMAIN pc : UpdateReload(p)
    \/ \E p \in DOMAIN pc, id \in 0..MaxId, url \in AuthUrls :
         pc[p] = "next" /\ GetCustomRule(p, id, url)
    \/ \E p \in DOMAIN pc, id \in 0..MaxId, dbErr \in BOOLEAN :
         pc[p] = "next" /\ DeleteCustomRule(p, id, dbErr)
    \/ Tick

SpecAuth == Init /\ [][NextAuth]_vars

(***************************************************************************)
(* SpecCrud: two requests in flight (gin serves every request on its own   *)
(* goroutine); creation, update by id and deletion of rules of one domain. *)
(***************************************************************************)
CrudUrls == {"https://example.com/test"}

CrudProcs == {1, 2}

InitCrud == InitWith(CrudProcs)

NextCrud ==
    \/ \E p \in DOMAIN pc, url \in CrudUrls : CreateCustomRule(p, url, "", TxtAllow)
    \/ \E p \in DOMAIN pc : SaveLock(p)
    \/ \E p \in DOMAIN pc : SaveInsert(p, FALSE, MaxId + 1)
    \/ \E p \in DOMAIN pc : SaveUnlock(p)
    \/ \E p \in DOMAIN pc, id \in 1..(MaxId + 1) :
         UpdateCustomRule(p, id, "", "true", TxtDisallow)
    \/ \E p \in DOMAIN pc : UpdateRead(p)
    \/ \E p \in DOMAIN pc, dbErr \in BOOLEAN : UpdateWrite(p, dbErr)
    \/ \E p \in DOMAIN pc : UpdateReload(p)
    \/ \E p \in DOMAIN pc, id \in 1..(MaxId + 1) : DeleteCustomRule(p, id, FALSE)

SpecCrud == InitCrud /\ [][NextCrud]_vars

(***************************************************************************)
(* SpecFetch: two crawl checks in flight for urls of one domain, on a      *)
(* store without rules and a cache that starts empty; no item expires      *)
(* while the requests run.                                                 *)
(***************************************************************************)
FetchUrls == {"https://example.com/test", "http://example.com/other"}

FetchReplies == {TransportFailure,
                 [err |-> FALSE, status |-> 200, body |-> TxtAllow],
                 [err |-> FALSE, status |-> 200, body |-> TxtDisallow],
                 [err |-> FALSE, status |-> 404, body |-> EmptyText]}

NextFetch ==
    \/ \E p \in DOMAIN pc, url \in FetchUrls : GetAllowedCrawl(p, url, "bot")
    \/ \E p \in DOMAIN pc : ResolveLookup(p)
    \/ \E p \in DOMAIN pc : ResolveCacheGet(p)
    \/ \E p \in DOMAIN pc, reply \in FetchReplies : ResolveFetchReply(p, reply)
    \/ \E p \in DOMAIN pc : ResolveCachePut(p)

SpecFetch == InitCrud /\ [][NextFetch]_vars

(***************************************************************************)
(* SpecUpd: two requests in flight; creation of a rule and updates by id   *)
(* with different texts.                                                   *)
(***************************************************************************)
NextUpd ==
    \/ \E p \in DOMAIN pc, url \in CrudUrls : CreateCustomRule(p, url, "", TxtAllow)
    \/ \E p \in DOMAIN pc : SaveLock(p)
    \/ \E p \in DOMAIN pc : SaveInsert(p, FALSE, MaxId)
    \/ \E p \in DOMAIN pc : SaveUnlock(p)
    \/ \E p \in DOMAIN pc, id \in 1..MaxId, body \in {TxtAllow, TxtDisallow} :
         UpdateCustomRule(p, id, "", "true", body)
    \/ \E p \in DOMAIN pc : UpdateRead(p)
    \/ \E p \in DOMAIN pc, dbErr \in BOOLEAN : UpdateWrite(p, dbErr)
    \/ \E p \in DOMAIN pc : UpdateReload(p)

SpecUpd == InitCrud /\ [][NextUpd]_vars

(***************************************************************************)
(* SpecSave: two create requests in flight.  A goroutine that can take a   *)
(* step takes it (WF); sync.Mutex hands the lock to a goroutine that has   *)
(* waited for it (starvation mode), so a waiting Lock returns once the     *)
(* lock is released often enough (SF).  The database answers every INSERT, *)
(* with a row or an error.  Requests arrive or not: no fairness on         *)
(* CreateCustomRule.                                                       *)
(***************************************************************************)
NextSave ==
    \/ \E p \in DOMAIN pc, url \in CrudUrls, body \in {TxtAllow, TxtDisallow} :
         CreateCustomRule(p, url, "", body)
    \/ \E p \in DOMAIN pc : SaveLock(p)
    \/ \E p \in DOMAIN pc, dbErr \in BOOLEAN : SaveInsert(p, dbErr, MaxId + 1)
    \/ \E p \in DOMAIN pc : SaveUnlock(p)

SpecSave ==
    /\ InitCrud
    /\ [][NextSave]_vars
    /\ \A p \in CrudProcs : SF_vars(SaveLock(p))
    /\ \A p \in CrudProcs : WF_vars(\E dbErr \in BOOLEAN : SaveInsert(p, dbErr, MaxId + 1))
    /\ \A p \in CrudProcs : WF_vars(SaveUnlock(p))

(***************************************************************************)
(* Properties.                                                             *)
(***************************************************************************)
Procs == DOMAIN pc

Resolving(p) == call[p].op = "resolve"
Resolved(p) == pc[p] = "done" /\ call[p].op = "resolve"

\* the rows of the url's domain that carry a robots text
OverridesOf(url) ==
    {r \in rules : r.domain = GetDomain(url).domain /\ r.robots_txt # EmptyText}

\* the cache key of a hostname
DomainKey(domain) == <<hashURL(domain), "-robots-txt">>

\* C1: a resolve call whose override lookup returned a rule with non-empty robots
\* text performs no cache get, no cache put and no live fetch.
C1_OverrideBypassesCacheAndFetch ==
    \A p \in Procs :
        Resolving(p) /\ call[p].src = "override" =>
            /\ pc[p] = "done"
            /\ call[p].nGet = 0 /\ call[p].nPut = 0 /\ call[p].nFetch = 0

\* C1 witness: an override answered while the cache holds an item for that domain.
C1_Witness ==
    \E p \in Procs :
        /\ Resolved(p) /\ call[p].src = "override"
        /\ cache[generateDomainHash(call[p].url)].present

\* C2: when the lookup returns a rule with non-empty text, isAllowed is the
\* evaluator's result on (that rule's text, userAgent, url), whatever the cache holds
\* and with status 200 and no error; the lookup returns the rule whenever the store
\* holds one for the domain and the query does not fail.
C2_OverrideDecides ==
    [][\A p \in Procs :
         pc[p] = "lookup" /\ pc'[p] # "lookup" =>
            /\ (OverridesOf(call[p].url) # {} /\ ~call'[p].dbErr => pc'[p] = "done")
            /\ (pc'[p] = "done" =>
                  \E r \in OverridesOf(call[p].url) :
                     /\ call'[p].http = StatusOK
                     /\ call'[p].resp.isAllowed = AgentAllowed(r.robots_txt, call[p].ua, call[p].url)
                     /\ call'[p].resp.statusCode = 200
                     /\ call'[p].resp.error = EmptyText)]_vars

\* C2 witness: the override allows while the cached file of the domain is the
\* envelope of a file that disallows.
C2_Witness ==
    \E p \in Procs :
        /\ Resolved(p) /\ call[p].src = "override"
        /\ call[p].resp.isAllowed
        /\ cache[generateDomainHash(call[p].url)].present
        /\ cache[generateDomainHash(call[p].url)].value = JsonMarshal(TxtDisallow)

\* C3: without an override and on a cache miss, a transport failure of the live
\* fetch ends the call with HTTP 500, statusCode 500 and the failure's non-empty text,
\* without a decision; the step and the call leave the cache as it is.
C3_TransportFailureIsError ==
    [][\A p \in Procs :
         pc[p] = "fetch" /\ call'[p].reply.err =>
            /\ pc'[p] = "done"
            /\ call'[p].http = 500
            /\ call'[p].resp = [isAllowed |-> FALSE, blocked |-> FALSE, statusCode |-> 500,
                                error |-> call'[p].reply.body]
            /\ call'[p].resp.error # EmptyText
            /\ call'[p].nEval = 0 /\ call'[p].nPut = 0
            /\ cache' = cache]_vars

\* C3 witness: a call that ended in a transport failure.
C3_Witness ==
    \E p \in Procs :
        /\ Resolved(p) /\ call[p].reply.err /\ call[p].nFetch = 1
        /\ call[p].src = "none" /\ call[p].nGet = 1

\* C4: without an override and on a cache miss, a live reply with a status outside
\* 200..299 ends the call with HTTP 200, isAllowed false, the upstream status and the
\* upstream body as error, and the evaluator is not called.
C4_NonSuccessStatusIsEchoed ==
    \A p \in Procs :
        /\ Resolved(p) /\ call[p].nFetch = 1 /\ ~call[p].reply.err
        /\ (call[p].reply.status < 200 \/ call[p].reply.status > 299)
        => /\ call[p].http = 200
           /\ call[p].resp = [isAllowed |-> FALSE, blocked |-> FALSE,
                              statusCode |-> call[p].reply.status,
                              error |-> call[p].reply.body]
           /\ call[p].nEval = 0

\* C4 witness: status 300, the first status above the 2xx range, was echoed.
C4_Witness ==
    \E p \in Procs :
        /\ Resolved(p) /\ call[p].nFetch = 1 /\ ~call[p].reply.err
        /\ call[p].reply.status = 300 /\ call[p].reply.body # EmptyText
        /\ call[p].resp.statusCode = 300

\* C5: cache-aside.  A call without override that misses the cache and gets a 2xx
\* reply with a non-empty body performs exactly one live fetch and one cache write,
\* and the accepted write leaves an item under the domain's key; within that item's
\* TTL a call for the same domain that the provider answers takes the item and
\* performs no live fetch and no cache write.
C5_CacheAside ==
    [][\A p \in Procs :
         LET c == call[p]
             d == call'[p]
             key == DomainKey(GetDomain(c.url).domain)
         IN
         /\ (pc[p] = "fetch" /\ pc'[p] # "fetch" /\ ~d.reply.err
               /\ d.reply.status \in 200..299 /\ d.reply.body # EmptyText
             => pc'[p] = "cachePut" /\ d.nFetch = 1 /\ d.nPut = 0)
         /\ (pc[p] = "cachePut" /\ pc'[p] # "cachePut"
             => /\ pc'[p] = "done" /\ d.nFetch = 1 /\ d.nPut = 1
                /\ (~d.putErr => cache'[key].present /\ cache'[key].ttl = TtlForRobotsTxt))
         /\ (pc[p] = "cacheGet" /\ pc'[p] # "cacheGet" /\ ~GetDomain(c.url).err
               /\ cache[key].present /\ ~d.getErr
             => pc'[p] = "done" /\ d.src = "cache" /\ d.nFetch = 0 /\ d.nPut = 0)]_vars

\* C5 witness: a call answered from an item that has aged but not expired.
C5_Witness ==
    \E p \in Procs :
        /\ Resolved(p) /\ call[p].src = "cache"
        /\ call[p].nFetch = 0 /\ call[p].nPut = 0
        /\ cache[generateDomainHash(call[p].url)].present
        /\ cache[generateDomainHash(call[p].url)].ttl < TtlForRobotsTxt

\* C6 (as claimed): after SaveRobotsFile(u, b) succeeds, GetRobotsFile(u) within the
\* TTL returns exactly b.
C6_CacheRoundTrip ==
    [][\A p \in Procs :
         pc[p] = "cachePut" /\ pc'[p] = "done" /\ ~call'[p].putErr
         => GetRobotsFile(call[p].url, FALSE)' = [ok |-> TRUE, file |-> call[p].reply.body]]_vars

\* C7: a provider error on the cache get is a miss and a failing cache put does not
\* fail the request: the answer of a call whose get failed or missed, whether or not
\* its put failed, is the answer that the url, the user agent and the live reply give
\* on an empty cache.
AnswerOnEmptyCache(c) ==
    IF GetBaseUrl(c.url).err
    THEN [http |-> 500,
          resp |-> [isAllowed |-> FALSE, blocked |-> FALSE, statusCode |-> 500,
                    error |-> <<"failed to parse url. ">> \o GetBaseUrl(c.url).msg]]
    ELSE IF c.reply.err
    THEN [http |-> 500,
          resp |-> [isAllowed |-> FALSE, blocked |-> FALSE, statusCode |-> 500,
                    error |-> c.reply.body]]
    ELSE IF c.reply.status < 200 \/ c.reply.status > 299
    THEN [http |-> 200,
          resp |-> [isAllowed |-> FALSE, blocked |-> FALSE, statusCode |-> c.reply.status,
                    error |-> c.reply.body]]
    ELSE [http |-> 200,
          resp |-> [isAllowed |-> AgentAllowed(c.reply.body, c.ua, c.url), blocked |-> FALSE,
                    statusCode |-> c.reply.status, error |-> EmptyText]]

C7_CacheFailuresAreAdvisory ==
    \A p \in Procs :
        Resolving(p) =>
            /\ (call[p].getErr => call[p].src # "cache")
            /\ (call[p].putErr => pc[p] = "done" /\ call[p].http = 200)
            /\ (pc[p] = "done" /\ call[p].nGet = 1 /\ (call[p].getErr \/ ~call[p].sawItem)
                => [http |-> call[p].http, resp |-> call[p].resp] = AnswerOnEmptyCache(call[p]))

\* C7 witness: the get failed although an item was there, the put failed too, and the
\* call still answered with a decision.
C7_Witness ==
    \E p \in Procs :
        /\ Resolved(p) /\ call[p].getErr /\ call[p].sawItem /\ call[p].putErr
        /\ call[p].http = 200 /\ call[p].nEval = 1

\* C8 (as claimed): a non-empty url that does not parse into scheme plus hostname,
\* with a non-empty userAgent, is answered with a 400.
C8_MalformedUrlIsBadRequest ==
    \A p \in Procs :
        /\ Resolved(p) /\ call[p].url # "" /\ call[p].ua # ""
        /\ GetBaseUrl(call[p].url).err
        => call[p].http = 400 /\ call[p].resp.statusCode = 400

\* the call ended because a precondition on url or userAgent does not hold
ValidationFailure(p) ==
    /\ Resolved(p)
    /\ \/ call[p].url = ""
       \/ call[p].ua = ""
       \/ /\ GetBaseUrl(call[p].url).err
          /\ call[p].resp.error = <<"failed to parse url. ">> \o GetBaseUrl(call[p].url).msg

\* C9 (as claimed): a call that ends in a validation failure has made no repository
\* query, no cache get or put and no live fetch.
C9_ValidationBeforeIO ==
    \A p \in Procs :
        ValidationFailure(p) =>
            /\ call[p].nRepo = 0 /\ call[p].nGet = 0
            /\ call[p].nPut = 0 /\ call[p].nFetch = 0

\* C10: an empty url is answered with HTTP 400 and {false, false, 400, "'url' query
\* parameter is required"}, also when user_agent is empty too; a non-empty url with an
\* empty user_agent is answered with HTTP 400 and "'user_agent' query parameter is
\* required".
C10_RequiredParameters ==
    \A p \in Procs :
        Resolved(p) =>
            /\ (call[p].url = "" =>
                  /\ call[p].http = 400
                  /\ call[p].resp = [isAllowed |-> FALSE, blocked |-> FALSE, statusCode |-> 400,
                                     error |-> <<"'url' query parameter is required">>])
            /\ (call[p].url # "" /\ call[p].ua = "" =>
                  /\ call[p].http = 400
                  /\ call[p].resp = [isAllowed |-> FALSE, blocked |-> FALSE, statusCode |-> 400,
                                     error |-> <<"'user_agent' query parameter is required">>])

\* C10 witness: both parameters are empty and the url error was returned.
C10_Witness ==
    \E p \in Procs :
        /\ Resolved(p) /\ call[p].url = "" /\ call[p].ua = ""
        /\ call[p].resp.error = <<"'url' query parameter is required">>

\* C11: a resolve result that was not built from an override rule (text from the
\* cache or a live fetch, an error, a rejected request) has blocked = false.
C11_BlockedOnlyFromOverride ==
    \A p \in Procs :
        Resolved(p) /\ call[p].src # "override" => call[p].resp.blocked = FALSE

\* C11 witness: a decision on live text for a domain whose rule, created with
\* blocked=true, could not be read.
C11_Witness ==
    \E p \in Procs :
        /\ Resolved(p) /\ call[p].src = "live" /\ call[p].http = StatusOK
        /\ isSuccess(call[p].resp.statusCode)
        /\ \E r \in OverridesOf(call[p].url) : r.req_blocked

\* C12: a resolve result built from an override rule carries the blocked value the
\* rule was created or last updated with.
C12_BlockedIsCarried ==
    \A p \in Procs :
        Resolved(p) /\ call[p].src = "override" =>
            \E r \in OverridesOf(call[p].url) :
                /\ r.robots_txt = call[p].robotsTxt
                /\ call[p].resp.blocked = r.req_blocked

\* the request of process p is finished and was served by the handler op
Served(p, op) == pc[p] = "done" /\ call[p].op = op

\* C13: a rule returned by Get override has the domain and the robots text of its
\* row and the blocked value that the create (or last update) of the row was
\* called with; an omitted blocked parameter counts as false.
C13_CreateRoundTrip ==
    \A p \in Procs :
        Served(p, "get") /\ call[p].http = StatusOK =>
            \E r \in rules :
                /\ call[p].out.rule.ID = r.id
                /\ call[p].out.rule.Domain = r.domain
                /\ call[p].out.rule.RobotsTxt = r.robots_txt
                /\ call[p].out.rule.Blocked = r.req_blocked

\* C14: the rule that a successful update reads back after its write has the
\* domain, the robots text and the blocked value that were passed to update.
C14_UpdateReadBack ==
    \A p \in Procs :
        Served(p, "update") /\ call[p].http = StatusOK /\ call[p].nWrite = 1 =>
            /\ call[p].out.rule = call[p].rule
            /\ call[p].out.rule.RobotsTxt = call[p].body
            /\ call[p].out.rule.Blocked = ParseBool(call[p].b).val

\* the rows an update request addresses
UpdateTarget(p) ==
    IF call[p].id # 0 THEN {r \in rules : r.id = call[p].id}
    ELSE {r \in rules : r.domain = GetDomain(call[p].url).domain}

\* C16: an update whose body and blocked value equal the robots text and the
\* blocked value its rule was last stored with answers 200 and issues no write.
C16_UpdateIdempotent ==
    [][\A p \in Procs :
          /\ pc[p] = "updRead" /\ pc'[p] # "updRead"
          /\ ~call'[p].dbErr
          /\ UpdateTarget(p) # {}
          /\ \A r \in UpdateTarget(p) :
                r.robots_txt = call[p].body /\ r.req_blocked = ParseBool(call[p].b).val
          => /\ pc'[p] = "done"
             /\ call'[p].http = StatusOK
             /\ call'[p].nWrite = 0
             /\ rules' = rules]_vars

\* C17: a delete whose statement does not fail answers 200 and leaves the store
\* without the id; when the id is absent the store is unchanged.
C17_DeleteIdempotent ==
    [][\A p \in Procs :
          /\ Idle(p) /\ pc'[p] = "done"
          /\ call'[p].op = "delete" /\ call'[p].id # 0 /\ ~call'[p].dbErr
          => /\ call'[p].http = StatusOK
             /\ rules' = {r \in rules : r.id # call'[p].id}
             /\ ((\A r \in rules : r.id # call'[p].id) => rules' = rules)]_vars

\* C17 witness: a delete answered 200 for an id that no create has handed out.
C17_Witness ==
    \E p \in Procs :
        /\ Served(p, "delete") /\ call[p].http = StatusOK
        /\ call[p].id >= nextId

\* C20: every stored rule has a non-empty robots text, and a create or update
\* request with an empty body is answered 400 without any repository call.
C20_NoEmptyText ==
    /\ \A r \in rules : r.robots_txt # EmptyText
    /\ \A p \in Procs :
          (Served(p, "create") \/ Served(p, "update")) /\ call[p].body = EmptyText =>
              /\ call[p].http = StatusBadRequest
              /\ call[p].nRepo = 0 /\ call[p].nWrite = 0

\* C15: an update whose UPDATE statement ran without a store failure and matched
\* no row, the id being gone by then, is answered 404.
C15_MissingIdIsNotFound ==
    \A p \in Procs :
        /\ Served(p, "update") /\ call[p].nWrite = 1
        /\ call[p].nRows = 0 /\ ~call[p].dbErr
        => call[p].http = StatusNotFound

\* C18: the lock of Save is held by exactly the create that is between its Lock
\* and its Unlock, so at most one insert runs at a time; the lock is released
\* after a successful and after a failed insert, and a create that waits for the
\* lock gets it.
C18_SaveIsSerialized ==
    /\ [](\A p \in CrudProcs : pc[p] \in {"saveInsert", "saveUnlock"} <=> mu = p)
    /\ [](\A p, q \in CrudProcs : pc[p] = "saveInsert" /\ pc[q] = "saveInsert" => p = q)
    /\ (mu # 0 ~> mu = 0)
    /\ \A p \in CrudProcs : pc[p] = "saveLock" ~> pc[p] = "saveInsert"

\* C18 witness: a create waits for the lock while the other, whose insert
\* failed, has not released it yet.
C18_Witness ==
    \E p, q \in Procs :
        /\ pc[p] = "saveLock"
        /\ pc[q] = "saveUnlock" /\ call[q].dbErr /\ mu = q

\* C19: the store never holds two rules of the same domain.
C19_OneOverridePerDomain ==
    \A r1, r2 \in rules : r1.domain = r2.domain => r1.id = r2.id

\* C24: a resolve call whose override lookup failed in the store is answered with
\* an error result and takes no decision from the cache or the live file.
C24_StoreFailureIsError ==
    \A p \in Procs :
        Resolved(p) /\ call[p].dbErr =>
            /\ call[p].http = StatusInternalServerError
            /\ call[p].src = "none"
            /\ call[p].nEval = 0

\* C30: a resolve call makes at most one live request, and it makes one exactly
\* when no override rule exists for the url's domain and the cache get missed.
C30_OneFetchPerCall ==
    \A p \in Procs :
        /\ Resolving(p) => call[p].nFetch <= 1
        /\ Resolved(p) =>
             (call[p].nFetch = 1 <=>
                /\ OverridesOf(call[p].url) = {}
                /\ call[p].nGet = 1 /\ call[p].src # "cache")

\* the item that memcached holds one tick later
Aged(item) ==
    IF ~item.present THEN item
    ELSE IF item.ttl <= 1 THEN NoItem
    ELSE [item EXCEPT !.ttl = @ - 1]

\* C27: a cache put that succeeds leaves its item with the configured TTL, the
\* same for every domain; a cache get leaves the cache as it is and is a hit only
\* on an item that is present (not expired); an item changes only by a put
\* or by ageing towards its expiry.
C27_TtlFixedAtWrite ==
    [][/\ \A p \in Procs :
            pc[p] = "cachePut" /\ pc'[p] = "done" /\ ~call'[p].putErr =>
                /\ cache'[generateDomainHash(call[p].url)].present
                /\ cache'[generateDomainHash(call[p].url)].ttl = TtlForRobotsTxt
       /\ \A p \in Procs :
            pc[p] = "cacheGet" /\ pc'[p] # "cacheGet" =>
                /\ cache' = cache
                /\ (call'[p].src = "cache" =>
                      cache[generateDomainHash(call[p].url)].present)
       /\ \A k \in CacheKeys :
            cache'[k] # cache[k] =>
                \/ cache'[k].present /\ cache'[k].ttl = TtlForRobotsTxt
                \/ cache'[k] = Aged(cache[k])]_vars

\* C27 witness: a cache hit on an item that has aged since it was written.
C27_Witness ==
    \E p \in Procs :
        /\ Resolved(p) /\ call[p].src = "cache"
        /\ cache[generateDomainHash(call[p].url)].present
        /\ cache[generateDomainHash(call[p].url)].ttl < TtlForRobotsTxt

\* the rows a Get override request addresses: by id when an id is given
GetTarget(c) ==
    IF c.id # 0 THEN {r \in rules : r.id = c.id}
    ELSE {r \in rules : r.domain = GetDomain(c.url).domain}

\* C28: Get override answers 400 without a repository call when neither id nor
\* url is given; otherwise it looks up by the id if one is given and by the url's
\* domain if not, answers 404 when no rule is found and answers a found rule with
\* the id, domain and text of its row; it never changes the store.
C28_GetOverride ==
    [][\A p \in Procs :
          Idle(p) /\ pc'[p] = "done" /\ call'[p].op = "get" =>
              LET c == call'[p] IN
              /\ rules' = rules
              /\ c.nWrite = 0
              /\ IF c.id = 0 /\ c.url = ""
                 THEN c.http = StatusBadRequest /\ c.nRepo = 0
                 ELSE /\ c.http \in {StatusOK, StatusNotFound}
                      /\ GetTarget(c) = {} => c.http = StatusNotFound
                      /\ GetTarget(c) # {} /\ ~c.dbErr => c.http = StatusOK
                      /\ c.http = StatusOK =>
                           \E r \in GetTarget(c) :
                               /\ c.out.rule.ID = r.id
                               /\ c.out.rule.Domain = r.domain
                               /\ c.out.rule.RobotsTxt = r.robots_txt]_vars

\* C28 witness: a rule returned for its id although the url given with the id is
\* of another domain.
C28_Witness ==
    \E p \in Procs :
        /\ Served(p, "get") /\ call[p].http = StatusOK
        /\ call[p].id # 0 /\ ~GetDomain(call[p].url).err
        /\ GetDomain(call[p].url).domain # call[p].out.rule.Domain

\* the live request of the call was answered 2xx with a non-empty body
FetchedFile(c) ==
    c.nFetch = 1 /\ ~c.reply.err /\ isSuccess(c.reply.status) /\ c.reply.body # EmptyText

\* C23: a resolve call writes to the cache only after its live request was
\* answered 2xx with a non-empty body, and then once, before it returns; the write
\* puts the fetched bytes under the key of the request's domain and touches no
\* other key; nothing else than a put or expiry changes an item.
C23_CacheWriteOnlyAfterFetch ==
    /\ [](\A p \in Procs :
            /\ Resolving(p) => call[p].nPut <= 1
            /\ Resolving(p) /\ call[p].nPut = 1 => FetchedFile(call[p])
            /\ Resolved(p) /\ FetchedFile(call[p]) => call[p].nPut = 1)
    /\ [][/\ \A p \in Procs :
               pc[p] = "cachePut" /\ pc'[p] = "done" /\ ~call'[p].putErr =>
                   /\ cache'[generateDomainHash(call[p].url)].present
                   /\ cache'[generateDomainHash(call[p].url)].value = call[p].reply.body
          /\ \A k \in CacheKeys :
               cache'[k] # cache[k] /\ cache'[k] # Aged(cache[k]) =>
                   \E p \in Procs :
                       /\ pc[p] = "cachePut" /\ pc'[p] = "done"
                       /\ k = generateDomainHash(call[p].url)]_vars

\* the result that the reply of the live request of call c stands for
ResultOfReply(c) ==
    IF c.reply.err
    THEN AllowedCrawlResponse(FALSE, FALSE, StatusInternalServerError, c.reply.body)
    ELSE IF ~isSuccess(c.reply.status)
    THEN AllowedCrawlResponse(FALSE, FALSE, c.reply.status, c.reply.body)
    ELSE AllowedCrawlResponse(AgentAllowed(c.reply.body, c.ua, c.url), FALSE,
                              c.reply.status, EmptyText)

\* C25: the result of a resolve call is a function of the url, the user agent, the
\* override rules, the cache content and the live reply: with an override rule of
\* the domain in the store it is the decision on that rule's text, else with an
\* item in the cache under the domain's key it is the decision on the item, else
\* it is the result that the live reply stands for.
C25_ResolveIsDeterministic ==
    [][\A p \in Procs :
          LET c == call[p]
              key == generateDomainHash(c.url)
          IN
          /\ pc[p] = "lookup" /\ pc'[p] # "lookup" /\ OverridesOf(c.url) # {} =>
                /\ pc'[p] = "done"
                /\ \A r \in OverridesOf(c.url) :
                      call'[p].resp =
                          AllowedCrawlResponse(AgentAllowed(r.robots_txt, c.ua, c.url),
                                               r.blocked, StatusOK, EmptyText)
          /\ pc[p] = "cacheGet" /\ pc'[p] # "cacheGet" /\ cache[key].present =>
                /\ pc'[p] = "done"
                /\ call'[p].resp =
                       AllowedCrawlResponse(AgentAllowed(cache[key].value, c.ua, c.url),
                                            FALSE, StatusOK, EmptyText)
          /\ pc[p] \in {"fetch", "cachePut"} /\ pc'[p] = "done" =>
                call'[p].resp = ResultOfReply(call'[p])]_vars

\* strings.ToLower on the hostnames of the model
ToLower(s) == IF s = "EXAMPLE.com" THEN "example.com" ELSE s

\* the urls of the model that have a hostname
HostUrls == {u \in SiteUrls : ~GetDomain(u).err}

\* C21: every stored rule has a lowercase domain, and two urls whose hostnames
\* differ only in letter case address the same rules and the same cache entry.
C21_LowercaseSiteIdentity ==
    /\ \A r \in rules : r.domain = ToLower(r.domain)
    /\ \A u1, u2 \in HostUrls :
          ToLower(GetDomain(u1).domain) = ToLower(GetDomain(u2).domain) =>
              /\ {r \in rules : r.domain = GetDomain(u1).domain}
                   = {r \in rules : r.domain = GetDomain(u2).domain}
              /\ cache[generateDomainHash(u1)] = cache[generateDomainHash(u2)]

FailureResults ==
    {FailInternal(NewCall("resolve", "", ""), msg).resp :
        msg \in {TransportFailure.body, FailedToParseUrl(ErrInvalidUrl),
                 FailedToParseUrl(ErrMissingScheme)}}
    \cup {AllowedCrawlResponse(FALSE, FALSE, StatusBadRequest, msg) :
            msg \in {<<"'url' query parameter is required">>,
                     <<"'user_agent' query parameter is required">>}}

\* C26: no result of a negative decision (a disallow of the directives, or a
\* non-2xx reply echoed with its status and body) equals a result written for a
\* transport or validation failure.
C26_FailureIsNotANo ==
    \A p \in Procs :
        Resolved(p) /\ call[p].http = StatusOK /\ ~call[p].resp.isAllowed =>
            call[p].resp \notin FailureResults

AdminOps == {"get", "create", "update", "delete"}

\* process p takes up a new piece of work named op' in this step
Starts(p) == pc[p] \in {"idle", "done", "next"} /\ call'[p] # call[p]

\* the rows of the key table that hold the hash of the key
KeyRows(apiKey) == {r \in ApiKeyRows : r.api_key = hashAPIKey(apiKey)}

\* C29: a custom-rule handler starts only after apiKeyCheck has passed a key
\* whose hash is in the key table and active; the check ends a request with a
\* missing or unknown key in 401, with an inactive key in 403 and with a failed
\* lookup in 500, without a change of the rules; a crawl check starts without it.
C29_ApiKeyGuardsCustomRules ==
    [][\A p \in Procs :
          /\ Starts(p) /\ call'[p].op \in AdminOps =>
                /\ pc[p] = "next" /\ call[p].op = "apiKeyCheck"
                /\ \E r \in KeyRows(call[p].apiKey) : r.is_active
          /\ Starts(p) /\ call'[p].op = "apiKeyCheck" =>
                LET c == call'[p] IN
                /\ rules' = rules
                /\ pc'[p] \in {"done", "next"}
                /\ pc'[p] = "next" <=>
                      /\ ~c.dbErr
                      /\ KeyRows(c.apiKey) # {}
                      /\ \A r \in KeyRows(c.apiKey) : r.is_active
                /\ c.apiKey = "" \/ (KeyRows(c.apiKey) = {} /\ ~c.dbErr)
                      => c.http = StatusUnauthorized
                /\ c.apiKey # "" /\ c.dbErr => c.http = StatusInternalServerError
                /\ ~c.dbErr /\ (\E r \in KeyRows(c.apiKey) : ~r.is_active)
                      => c.http = StatusForbidden
          /\ Starts(p) /\ call'[p].op = "resolve" => Idle(p)]_vars

\* C29 witness: a rule created by a request that passed the key check, and a
\* process that is idle or done.
C29_Witness ==
    \E p \in Procs :
        /\ Served(p, "create") /\ call[p].http = StatusOK
        /\ rules # {}

\* C31: a call whose directive text comes from an override rule or from a cache
\* hit made no live request and reports the status 200 with an empty error; a
\* decision (a 200 answer) that carries another status carries the status of the
\* reply to the live request of that call.
C31_StatusOfCachedAndOverride ==
    \A p \in Procs :
        Resolved(p) =>
            /\ call[p].src \in {"override", "cache"} =>
                  /\ call[p].nFetch = 0
                  /\ call[p].resp.statusCode = StatusOK
                  /\ call[p].resp.error = EmptyText
            /\ call[p].http = StatusOK /\ call[p].resp.statusCode # StatusOK =>
                  /\ call[p].nFetch = 1 /\ ~call[p].reply.err
                  /\ call[p].reply.status = call[p].resp.statusCode

\* C31 witness: a call answered from a cached item, without a live request, that
\* reports the status 200.
C31_Witness ==
    \E p \in Procs :
        /\ Resolved(p) /\ call[p].src = "cache" /\ call[p].sawItem
        /\ call[p].nFetch = 0 /\ call[p].resp.statusCode = StatusOK

\* the answer of GetAllowedCrawl for a rule with the given text and blocked flag
AnswerForRule(url, ua, text, blocked) ==
    Decide(NewCall("resolve", url, ua), "override", text, blocked, StatusOK).resp

\* C32: the blocked flag of an override rule does not enter the decision: the
\* isAllowed, statusCode and error of a call answered from a rule are those of
\* the answer for a rule with the same text and either value of blocked.
C32_BlockedDoesNotDecide ==
    \A p \in Procs :
        Resolved(p) /\ call[p].src = "override" =>
            \A blocked \in BOOLEAN :
                LET twin == AnswerForRule(call[p].url, call[p].ua, call[p].robotsTxt, blocked)
                IN /\ twin.isAllowed = call[p].resp.isAllowed
                   /\ twin.statusCode = call[p].resp.statusCode
                   /\ twin.error = call[p].resp.error

\* C32 witness: a call allowed by a rule that was stored with blocked=true.
C32_Witness ==
    \E p \in Procs :
        /\ Resolved(p) /\ call[p].src = "override" /\ call[p].resp.isAllowed
        /\ \E r \in OverridesOf(call[p].url) :
               r.req_blocked /\ r.robots_txt = call[p].robotsTxt

\* process p takes a step of a resolve call: it starts one or moves on in one
ResolveStep(p) ==
    /\ call'[p].op = "resolve"
    /\ call'[p] # call[p] \/ pc'[p] # pc[p]

\* C33: no step of a resolve call, whatever its outcome, creates, changes or
\* deletes a rule or takes an id: the rows of the store and the store's id
\* sequence are the same after the step as before.
C33_ResolveReadsOnly ==
    [][\A p \in Procs : ResolveStep(p) => rules' = rules /\ nextId' = nextId]_vars

\* C33 witness: a call that fetched and cached a file although a rule of its
\* domain is stored, and ended with the rule still in the store.
C33_Witness ==
    \E p \in Procs :
        /\ Resolved(p) /\ call[p].nFetch = 1 /\ call[p].nPut = 1
        /\ OverridesOf(call[p].url) # {}

\* process p takes a step of a get, create, update or delete request
AdminStep(p) ==
    /\ call'[p].op \in AdminOps
    /\ call'[p] # call[p] \/ pc'[p] # pc[p]

\* C34: no step of a create, update, delete (or get) request reads, writes or
\* removes a cache item, and an item leaves the cache only by expiry; so the item
\* of a domain outlives the rules of the domain, and a call for the domain that
\* finds no rule and gets the item from the provider answers from it without a
\* live request.
C34_RuleWritesLeaveCache ==
    [][/\ \A p \in Procs :
            /\ AdminStep(p) =>
                  /\ cache' = cache
                  /\ call'[p].nGet = 0 /\ call'[p].nPut = 0 /\ ~call'[p].sawItem
            /\ pc[p] = "cacheGet" /\ pc'[p] # "cacheGet"
                 /\ cache[generateDomainHash(call[p].url)].present /\ ~call'[p].getErr =>
                  /\ pc'[p] = "done" /\ call'[p].src = "cache"
                  /\ call'[p].nFetch = 0 /\ call'[p].nPut = 0
                  /\ call'[p].robotsTxt = cache[generateDomainHash(call[p].url)].value
       /\ \A k \in CacheKeys :
            cache[k].present /\ ~cache'[k].present =>
                cache[k].ttl <= 1 /\ cache'[k] = Aged(cache[k])]_vars

\* C34 witness: a call answered from the cached item of a domain, without a live
\* request, after a rule was created and deleted again.
C34_Witness ==
    \E p \in Procs :
        /\ Resolved(p) /\ call[p].src = "cache" /\ call[p].nFetch = 0
        /\ rules = {} /\ nextId > 1
        /\ cache[generateDomainHash(call[p].url)].present

\* the call of process p looked into the cache once and found no item
Missed(p) == call[p].nGet = 1 /\ ~call[p].sawItem

\* C35 (as claimed): calls for one domain that run side by side on an empty
\* cache are not coalesced: when all of them have returned and each saw the
\* cache empty, each valid one made its own live request, and the domain's item
\* is there exactly if a 2xx reply with a body was written, holding the bytes of
\* one of these replies.
C35_UncoalescedFetches ==
    (\A p \in Procs : Resolved(p) /\ Missed(p)) =>
        LET key == DomainKey("example.com")
            written == {p \in Procs : FetchedFile(call[p]) /\ ~call[p].putErr}
        IN /\ \A p \in Procs : call[p].nFetch = 1
           /\ \A p \in Procs : FetchedFile(call[p]) => call[p].nPut = 1
           /\ cache[key].present <=> written # {}
           /\ cache[key].present => \E p \in written : cache[key].value = call[p].reply.body

\* the url has a hostname and no scheme
SchemelessHost(url) ==
    ~UrlParse(url).err /\ UrlParse(url).host # "" /\ UrlParse(url).scheme = ""

\* C36: a call for a url with a hostname and no scheme never sends a live
\* request and never writes the cache; when the store and the cache answered
\* its lookups, it returns a decision if a rule of the hostname is stored or an
\* item of the hostname was in the cache, and the error answer 500 otherwise.
C36_SchemelessUrlDependsOnState ==
    \A p \in Procs :
        Resolved(p) /\ SchemelessHost(call[p].url) /\ call[p].ua # "" =>
            /\ call[p].nFetch = 0 /\ call[p].nPut = 0
            /\ call[p].http \in {StatusOK, StatusInternalServerError}
            /\ ~call[p].dbErr /\ ~call[p].getErr =>
                  IF OverridesOf(call[p].url) # {} \/ call[p].sawItem
                  THEN /\ call[p].http = StatusOK /\ call[p].nEval = 1
                       /\ call[p].src = (IF OverridesOf(call[p].url) # {}
                                         THEN "override" ELSE "cache")
                  ELSE /\ call[p].http = StatusInternalServerError
                       /\ call[p].src = "none" /\ call[p].nEval = 0
                       /\ call[p].resp = AllowedCrawlResponse(FALSE, FALSE,
                                             StatusInternalServerError,
                                             FailedToParseUrl(ErrInvalidUrl))

\* C36 witness: a call for a url without scheme answered from the cached item
\* of its hostname.
C36_Witness ==
    \E p \in Procs :
        /\ Resolved(p) /\ SchemelessHost(call[p].url)
        /\ call[p].src = "cache" /\ call[p].http = StatusOK /\ call[p].nFetch = 0

\* the urls of the model that have the hostname of url
SameHostname(url) ==
    {u \in SiteUrls : ~UrlParse(u).err /\ UrlParse(u).host = UrlParse(url).host}

\* C37: the cache key and the rule lookup of a url with a hostname are those of
\* every url with that hostname, whatever its scheme and port: a call takes the
\* rule stored for the hostname and, on a hit, the item stored under the
\* hostname's key, and writes a fetched file under that key; the live request
\* goes to scheme://hostname/robots.txt, without the port.
C37_HostnameOnlyIdentity ==
    [][\A p \in Procs :
          LET c == call[p]
              d == call'[p]
              u == UrlParse(c.url)
              key == DomainKey(u.host)
          IN
          Resolving(p) /\ ~u.err /\ u.host # "" =>
              /\ \A v \in SameHostname(c.url) :
                    /\ generateDomainHash(v) = key
                    /\ GetByUrl(v) = GetByUrl(c.url)
              /\ pc[p] = "lookup" /\ pc'[p] # "lookup" =>
                    /\ d.src = "override" =>
                          \E r \in rules : r.domain = u.host /\ d.robotsTxt = r.robots_txt
                    /\ ~d.dbErr /\ (\E r \in rules : r.domain = u.host) => d.src = "override"
              /\ pc[p] = "cacheGet" /\ pc'[p] # "cacheGet" /\ cache[key].present /\ ~d.getErr =>
                    d.src = "cache" /\ d.robotsTxt = cache[key].value
              /\ pc[p] = "fetch" /\ pc'[p] # "fetch" =>
                    d.target = <<u.scheme, u.host, "/robots.txt">>
              /\ pc[p] = "cachePut" /\ pc'[p] # "cachePut" /\ ~d.putErr =>
                    cache'[key] = SetItem(c.reply.body, TtlForRobotsTxt)]_vars

\* C37 witness: a call for http://example.com:8080 answered from the rule that
\* was created for https://example.com.
C37_Witness ==
    \E p \in Procs :
        /\ Resolved(p) /\ call[p].url = "http://example.com:8080/test"
        /\ call[p].src = "override"
        /\ \E r \in rules : r.domain = "example.com" /\ r.robots_txt = call[p].robotsTxt

\* the ids of the stored rules
Ids == {r.id : r \in rules}

\* process p takes a step of an update request
UpdateStep(p) ==
    /\ call'[p].op = "update"
    /\ call'[p] # call[p] \/ pc'[p] # pc[p]

\* C38: no step of an update adds or removes a row or changes the id of one;
\* a row enters the store only by the insert of a create, under an id that no
\* row had before, so a deleted rule stays absent whatever update runs beside
\* or after the delete.
C38_UpdateNeverCreates ==
    [][/\ \A p \in Procs :
            UpdateStep(p) => Ids' = Ids /\ Cardinality(rules') = Cardinality(rules)
       /\ \A id \in Ids' \ Ids :
            /\ id = nextId /\ nextId' > nextId
            /\ \E p \in Procs : pc[p] = "saveInsert" /\ pc'[p] = "saveUnlock"
       /\ Cardinality(rules') > Cardinality(rules) => Ids' \ Ids # {}
       /\ nextId' >= nextId]_vars

\* C38 witness: the write of an update whose rule another request has deleted
\* since the update read it: it matched no row and the rule is absent.
C38_Witness ==
    \E p \in Procs :
        /\ pc[p] = "updReload" /\ call[p].nWrite = 1 /\ call[p].nRows = 0
        /\ call[p].rule.ID \notin Ids
        /\ \E q \in Procs : Served(q, "delete") /\ call[q].id = call[p].rule.ID
                               /\ call[q].http = StatusOK

\* C39: updates of one id that run side by side are not serialized: each write
\* puts the request's own text into the row, each reload that the store answers
\* reports success with the row as it is stored at that moment, and when two
\* updates of the id have reported success the stored text is the text of one
\* of them.
C39_ConcurrentUpdates ==
    /\ [](\A p, q \in Procs :
            /\ p # q /\ Served(p, "update") /\ Served(q, "update")
            /\ call[p].http = StatusOK /\ call[q].http = StatusOK
            /\ call[p].out.rule.ID = call[q].out.rule.ID
            => \A r \in rules :
                   r.id = call[p].out.rule.ID =>
                       r.robots_txt \in {call[p].body, call[q].body})
    /\ [][\A p \in Procs :
            /\ pc[p] = "updWrite" /\ pc'[p] = "updReload" =>
                  /\ \A r \in rules' : r.id = call[p].rule.ID => r.robots_txt = call[p].body
                  /\ {r \in rules' : r.id # call[p].rule.ID}
                        = {r \in rules : r.id # call[p].rule.ID}
            /\ pc[p] = "updReload" /\ pc'[p] = "done" /\ ~call'[p].dbErr =>
                  /\ call'[p].http = StatusOK
                  /\ \E r \in rules : r.id = call[p].rule.ID /\ call'[p].out.rule = ScanRule(r)
                  /\ rules' = rules]_vars

\* C39 witness: two updates of one id have reported success, and one of them
\* returned a rule with the text of the other instead of its own.
C39_Witness ==
    \E p, q \in Procs :
        /\ p # q /\ Served(p, "update") /\ Served(q, "update")
        /\ call[p].http = StatusOK /\ call[q].http = StatusOK
        /\ call[p].nWrite = 1 /\ call[q].nWrite = 1
        /\ call[p].out.rule.ID = call[q].out.rule.ID
        /\ call[p].body # call[q].body
        /\ call[p].out.rule.RobotsTxt = call[q].body
        /\ \E r \in rules : r.id = call[p].out.rule.ID /\ r.robots_txt = call[q].body

====
